---------------------------- MODULE Spec2Model ----------------------------
(***************************************************************************)
(* Model of the listing ingestion pipeline: the two scrapers of Lib.py     *)
(* (ToriScraper over HTML pages, NettikoneScraper over the JSON API), the  *)
(* shared listings table, and the scrape_and_notify background task of     *)
(* Bot.py driven by the discord.ext.tasks loop.                            *)
(***************************************************************************)
EXTENDS Integers, Sequences, FiniteSets, Bags, TLC

(* ------------------------------ bounds --------------------------------- *)
\* an iteration of the background task starts while the rows of the table and
\* the buffered listings together are at most this many
MaxRows == 2
\* largest number of cards on an HTML page / items in an API response
MaxItems == 2

(* ---------------------------- configuration ---------------------------- *)
\* length of config['listing_urls']: Bot.py writes a list of one generated URL
\* to config.json before ToriScraper loads it
NumUrls == 1

(* ------------------------- Listing (Lib.py) ---------------------------- *)
\* the 'N/A' placeholder of Listing.__init__
Sentinel == "N/A"

\* the prefix put in front of a card's href
ToriBase == "https://autot.tori.fi"

\* An optional value (an element that soup.find may not find, a JSON value
\* that may be None) is a sequence of length 0 or 1.
Some(v) == <<v>>
None == <<>>

\* text of an element if it was found, the sentinel otherwise
TextOr(opt) == IF opt = None THEN Sentinel ELSE opt[1]

\* Listing.__init__ with listing_type='html': every field falls back to the
\* sentinel on its own; the link is the base URL followed by the href.
ListingFromHtml(card) ==
    [ title   |-> TextOr(card.title),
      price   |-> TextOr(card.price),
      details |-> TextOr(card.details),
      link    |-> IF card.href = None THEN Sentinel ELSE ToriBase \o card.href[1],
      img_url |-> IF card.img = None THEN Some(Sentinel) ELSE card.img ]

\* the listing_data dict built in NettikoneScraper.scrape_listings for one item
ListingData(item) ==
    [ title   |-> item.model,
      link    |-> "" \o item.adUrl,
      price   |-> ToString(item.id),
      img_url |-> IF Len(item.images) > 0 THEN Some(item.images[1]) ELSE None,
      details |-> item.model ]

\* Listing.__init__ with listing_type='json': data.get(key, 'N/A') of a dict
\* that has every key, so the values are taken as they are (None included).
ListingFromJson(data) ==
    [ title   |-> data.title,
      price   |-> data.price,
      details |-> data.details,
      link    |-> data.link,
      img_url |-> data.img_url ]

\* Listing.is_valid: bool(self.title or self.link)
is_valid(listing) == listing.title # "" \/ listing.link # ""

(* ------------------------------ inputs --------------------------------- *)
CardA == [title |-> Some("Volvo FH"), price |-> Some("100"), details |-> Some("2019"),
          href |-> Some("/a"), img |-> Some("a.jpg")]
CardB == [title |-> Some("Volvo FM"), price |-> Some("200"), details |-> Some("2020"),
          href |-> Some("/b"), img |-> None]
\* a card in which none of the expected elements is found
CardBroken == [title |-> None, price |-> None, details |-> None,
               href |-> None, img |-> None]
Cards == {CardA, CardB, CardBroken}

ItemX == [model |-> "EC220", adUrl |-> "nk/x", id |-> 1, images |-> <<"x.jpg">>]
ItemY == [model |-> "L90", adUrl |-> "nk/y", id |-> 2, images |-> <<>>]
\* an item whose model and adUrl are empty strings
ItemBlank == [model |-> "", adUrl |-> "", id |-> 3, images |-> <<>>]
Items == {ItemX, ItemY, ItemBlank}

SeqsUpTo(S, n) == UNION {[1..k -> S] : k \in 0..n}

\* what requests.get gives for a listing page: a status with the cards of the
\* body, or a raised requests.exceptions.ConnectionError / Timeout
HtmlResponses ==
    {[kind |-> "ok", status |-> 200, cards |-> cs] : cs \in SeqsUpTo(Cards, MaxItems)}
        \cup {[kind |-> "ok", status |-> 500, cards |-> <<>>],
              [kind |-> "error", status |-> 0, cards |-> <<>>]}

\* what requests.get gives for the API search
ApiResponses ==
    {[kind |-> "ok", status |-> 200, data |-> d] : d \in SeqsUpTo(Items, MaxItems)}
        \cup {[kind |-> "ok", status |-> 401, data |-> <<>>],
              [kind |-> "error", status |-> 0, data |-> <<>>]}

(* --------------------- ListingRepository (Lib.py) ---------------------- *)
RECURSIVE BagOfSeq(_)
BagOfSeq(s) == IF s = <<>> THEN EmptyBag ELSE SetToBag({Head(s)}) (+) BagOfSeq(Tail(s))

\* ListingRepository.get_all_links: the set of the links of all rows
get_all_links(rows) == {l.link : l \in BagToSet(rows)}

\* save_listings without its session.commit(): nothing reaches the table
save_listings_uncommitted(rows, new_listings) == rows

\* save_listings writing the table anew from the buffer
save_listings_replacing(rows, new_listings) == BagOfSeq(new_listings)

\* ScraperBase.save_listings: session.add of every buffered listing, commit
save_listings(rows, new_listings) == rows (+) BagOfSeq(new_listings)

(* --------------------------- scrape passes ----------------------------- *)
RECURSIVE KeepNew(_, _)
\* the loop of ToriScraper.scrape_url over the listing elements of a page:
\* a listing is appended when it is valid and its link is not in the table
KeepNew(listings, rows) ==
    IF listings = <<>> THEN <<>>
    ELSE LET l == Head(listings)
             rest == KeepNew(Tail(listings), rows)
         IN IF is_valid(l) /\ l.link \notin get_all_links(rows)
            THEN <<l>> \o rest ELSE rest

\* the Listing of every listing element of a page, in page order
HtmlListings(cards) == [i \in 1..Len(cards) |-> ListingFromHtml(cards[i])]

\* the listings list built from the items of an API response, in order
ApiListings(data) == [i \in 1..Len(data) |-> ListingFromJson(ListingData(data[i]))]

\* ToriScraper.scrape_url on a response: the buffer after the call
ToriScrapeUrl(new_listings, resp, rows) ==
    IF resp.status = 200
    THEN new_listings \o KeepNew(HtmlListings(resp.cards), rows)
    ELSE new_listings

\* NettikoneScraper.scrape_listings on a response with a non-empty array: the
\* test after the loop reads the last listing only, and extends the buffer with
\* all the listings of the response
NettikoneScrape(new_listings, resp, rows) ==
    IF resp.status = 200
    THEN LET listings == ApiListings(resp.data)
             listing == listings[Len(listings)]
         IN IF is_valid(listing) /\ listing.link \notin get_all_links(rows)
            THEN new_listings \o listings ELSE new_listings
    ELSE new_listings


(* ------------------------------- state --------------------------------- *)
VARIABLES
    store,      \* rows of the listings table (one database for both scrapers)
    nk_new,     \* nettikone_scraper.new_listings
    tori_new,   \* tori_scraper.new_listings
    pc,         \* where the background task is
    idx,        \* number of listings of the current for loop already sent
    url,        \* number of configured URLs already scraped in this pass
    due,        \* the loop's next iteration time has been reached
    active,     \* invocations of scrape_and_notify that have not ended
    exc,        \* the exception leaving scrape_and_notify, if any
    api_key,    \* nettikone_scraper.api_key, as get_nettikone_api_token gave it
    tori_status, \* status codes of the listing page responses of this iteration
    sent,       \* links channel.send has been called for, in any iteration
    tickSent,   \* links channel.send has been called for in this iteration
    phases      \* the scrapes, sends and table writes of this iteration, in order

vars == <<store, nk_new, tori_new, pc, idx, url, due, active, exc,
          api_key, tori_status, sent, tickSent, phases>>

NoExc == [type |-> "none", at |-> "none"]
\* the exceptions discord.ext.tasks retries after a backoff (OSError and its
\* subclasses, which requests' ConnectionError and Timeout are, and
\* aiohttp.ClientError); the loop ends on any other one
Retried == {"OSError"}
SendFailures == {"OSError", "HTTPException"}

Phase(ev, src) == [ev |-> ev, src |-> src]

\* the phases with one more event: a run of equal events is recorded once
Record(ps, ev, src) ==
    IF ps # <<>> /\ ps[Len(ps)] = Phase(ev, src) THEN ps ELSE Append(ps, Phase(ev, src))

\* the state once Bot.py has built the scrapers and the bot, given the token
InitWith(token) ==
    /\ api_key = token
    /\ tori_status = <<>>
    /\ store = EmptyBag
    /\ nk_new = <<>>
    /\ tori_new = <<>>
    /\ pc = "stopped"
    /\ idx = 0
    /\ url = 0
    /\ due = FALSE
    /\ active = 0
    /\ exc = NoExc
    /\ sent = {}
    /\ tickSent = {}
    /\ phases = <<>>

\* get_nettikone_api_token returned the access token
Init == InitWith(Some("token"))

\* get_nettikone_api_token returned None (no access_token in the answer, or a
\* RequestException)
InitNoToken == InitWith(None)

(* ------------------- the discord.ext.tasks loop ------------------------ *)
\* on_ready: scrape_and_notify.start(); start() raises RuntimeError and
\* changes nothing while the task is launched and not completed.  The first
\* iteration runs at once.
OnReady ==
    /\ pc = "stopped"
    /\ pc' = "idle"
    /\ due' = TRUE
    /\ UNCHANGED <<store, nk_new, tori_new, idx, url, active, exc,
                   api_key, tori_status, sent, tickSent, phases>>

\* the interval (seconds=delay) elapses; the event loop can act on it where it
\* runs, which is during the loop's sleep and the awaits of channel.send (the
\* requests and the commits block it)
TimerElapse ==
    /\ pc \in {"idle", "nk_notify", "tori_notify"}
    /\ ~due
    /\ due' = TRUE
    /\ UNCHANGED <<store, nk_new, tori_new, pc, idx, url, active, exc,
                   api_key, tori_status, sent, tickSent, phases>>

\* the loop awaits the coroutine before it sleeps and iterates again
LoopGuardOverlapping(p) == p # "stopped"
LoopGuard(p) == p = "idle"

StartTick ==
    /\ LoopGuard(pc)
    /\ due
    /\ BagCardinality(store) + Len(nk_new) + Len(tori_new) <= MaxRows
    /\ pc' = "nk_scrape"
    /\ due' = FALSE
    /\ active' = active + 1
    /\ idx' = 0
    /\ url' = 0
    /\ tickSent' = {}
    /\ phases' = <<>>
    /\ tori_status' = <<>>
    /\ UNCHANGED <<store, nk_new, tori_new, exc, api_key, sent>>

\* the coroutine returned: the loop sleeps until the next iteration
LoopNext ==
    /\ pc = "returned"
    /\ pc' = "idle"
    /\ active' = active - 1
    /\ UNCHANGED <<store, nk_new, tori_new, idx, url, due, exc,
                   api_key, tori_status, sent, tickSent, phases>>

\* the coroutine raised: a retried exception makes the loop call it again
\* after a backoff, any other ends the loop
LoopError ==
    /\ pc = "raised"
    /\ IF exc.type \in Retried
       THEN pc' = "idle" /\ due' = TRUE
       ELSE pc' = "stopped" /\ due' = FALSE
    /\ active' = active - 1
    /\ exc' = NoExc
    /\ UNCHANGED <<store, nk_new, tori_new, idx, url, api_key, tori_status, sent,
                   tickSent, phases>>

(* ----------------------- scrape_and_notify ----------------------------- *)
\* the for loop over the buffer left out: the save follows the scrape at once
AfterScrapeUnsent(buf, notifyPc, savePc) == savePc

\* a for loop over an empty buffer sends nothing
AfterScrape(buf, notifyPc, savePc) == IF Len(buf) = 0 THEN savePc ELSE notifyPc

\* nettikone_scraper.scrape_listings() when requests.get gives resp; the
\* request is made whatever api_key is (a header whose value is None is left
\* out of the request)
NkScrapeOn(resp) ==
    /\ pc = "nk_scrape"
    /\ IF resp.kind = "error"
       THEN \* RequestException is caught and logged
            /\ pc' = AfterScrape(nk_new, "nk_notify", "nk_save")
            /\ UNCHANGED <<nk_new, exc>>
       ELSE IF resp.status = 200 /\ resp.data = <<>>
       THEN \* the name listing is not bound after an empty loop
            /\ pc' = "raised"
            /\ exc' = [type |-> "UnboundLocalError", at |-> "nk_scrape"]
            /\ UNCHANGED nk_new
       ELSE /\ nk_new' = NettikoneScrape(nk_new, resp, store)
            /\ pc' = AfterScrape(nk_new', "nk_notify", "nk_save")
            /\ UNCHANGED exc
    /\ phases' = Record(phases, "scrape", "nettikone")
    /\ UNCHANGED <<store, tori_new, idx, url, due, active, api_key, tori_status,
                   sent, tickSent>>

NkScrape == \E resp \in ApiResponses : NkScrapeOn(resp)

\* one await channel.send(embed=embed) of a for loop over a buffer
Send(buf, src, here, savePc) ==
    /\ pc = here
    /\ idx < Len(buf)
    /\ LET listing == buf[idx + 1] IN
         /\ sent' = sent \cup {listing.link}
         /\ tickSent' = tickSent \cup {listing.link}
    /\ phases' = Record(phases, "notify", src)
    /\ \E outcome \in {"sent"} \cup SendFailures :
         IF outcome = "sent"
         THEN /\ idx' = idx + 1
              /\ pc' = IF idx' = Len(buf) THEN savePc ELSE here
              /\ UNCHANGED exc
         ELSE /\ pc' = "raised"
              /\ exc' = [type |-> outcome, at |-> here]
              /\ UNCHANGED idx
    /\ UNCHANGED <<store, nk_new, tori_new, url, due, active, api_key, tori_status>>

NkSend == Send(nk_new, "nettikone", "nk_notify", "nk_save")

ToriSend == Send(tori_new, "tori", "tori_notify", "tori_save")

\* what session.commit() of save_listings does: it commits, or raises an
\* SQLAlchemyError (the database is locked, the disk is full)
CommitOutcomes == {"committed", "SQLAlchemyError"}

\* scraper.save_listings() on a buffer: the rows are added and the buffer is
\* cleared, unless the commit raises, which leaves the function before clear()
Save(buf, src, here, nextPc) ==
    /\ pc = here
    /\ \E outcome \in CommitOutcomes :
         IF outcome = "committed"
         THEN /\ store' = save_listings(store, buf)
              /\ phases' = IF buf = <<>> THEN phases ELSE Record(phases, "write", src)
              /\ pc' = nextPc
              /\ UNCHANGED exc
         ELSE /\ pc' = "raised"
              /\ exc' = [type |-> outcome, at |-> here]
              /\ UNCHANGED <<store, phases>>
    /\ idx' = 0
    /\ UNCHANGED <<url, due, active, api_key, tori_status, sent, tickSent>>

\* nettikone_scraper.save_listings()
NkSave ==
    /\ Save(nk_new, "nettikone", "nk_save", "tori_scrape")
    /\ nk_new' = IF pc' = "raised" THEN nk_new ELSE <<>>
    /\ UNCHANGED tori_new

\* scrape_url saving what it keeps, as its docstring words it ("add new
\* listings to the repository")
ToriScrapeSaving ==
    /\ pc = "tori_scrape"
    /\ url < NumUrls
    /\ \E resp \in HtmlResponses :
         /\ resp.kind = "ok"
         /\ tori_new' = ToriScrapeUrl(tori_new, resp, store)
         /\ store' = save_listings(store, ToriScrapeUrl(<<>>, resp, store))
         /\ tori_status' = Append(tori_status, resp.status)
         /\ url' = url + 1
         /\ pc' = IF url' = NumUrls
                  THEN AfterScrape(tori_new', "tori_notify", "tori_save")
                  ELSE "tori_scrape"
    /\ phases' = Record(phases, "scrape", "tori")
    /\ UNCHANGED <<nk_new, idx, due, active, exc, api_key, sent, tickSent>>

\* scrape_url leaving by an exception on a status other than 200, as
\* response.raise_for_status() would make it
ToriScrapeOnRaising(resp, n) ==
    /\ pc = "tori_scrape"
    /\ url < n
    /\ IF resp.kind = "error" \/ resp.status # 200
       THEN /\ pc' = "raised"
            /\ exc' = [type |-> "OSError", at |-> "tori_scrape"]
            /\ UNCHANGED <<tori_new, url, tori_status>>
       ELSE /\ tori_new' = ToriScrapeUrl(tori_new, resp, store)
            /\ tori_status' = Append(tori_status, resp.status)
            /\ url' = url + 1
            /\ pc' = IF url' = n
                     THEN AfterScrape(tori_new', "tori_notify", "tori_save")
                     ELSE "tori_scrape"
            /\ UNCHANGED exc
    /\ phases' = Record(phases, "scrape", "tori")
    /\ UNCHANGED <<store, nk_new, idx, due, active, api_key, sent, tickSent>>

\* one self.scrape_url(listing_url) of ToriScraper.scrape_listings over n
\* configured URLs, when requests.get gives resp
ToriScrapeOn(resp, n) ==
    /\ pc = "tori_scrape"
    /\ url < n
    /\ IF resp.kind = "error"
       THEN \* nothing catches the ConnectionError of requests.get
            /\ pc' = "raised"
            /\ exc' = [type |-> "OSError", at |-> "tori_scrape"]
            /\ UNCHANGED <<tori_new, url, tori_status>>
       ELSE /\ tori_new' = ToriScrapeUrl(tori_new, resp, store)
            /\ tori_status' = Append(tori_status, resp.status)
            /\ url' = url + 1
            /\ pc' = IF url' = n
                     THEN AfterScrape(tori_new', "tori_notify", "tori_save")
                     ELSE "tori_scrape"
            /\ UNCHANGED exc
    /\ phases' = Record(phases, "scrape", "tori")
    /\ UNCHANGED <<store, nk_new, idx, due, active, api_key, sent, tickSent>>

\* tori_scraper.scrape_listings() with the configuration Bot.py writes
ToriScrape == \E resp \in HtmlResponses : ToriScrapeOn(resp, NumUrls)

\* tori_scraper.scrape_listings() when config.json lists one URL more; the
\* pages share the MaxItems cards of a pass between them
ToriScrapeMany ==
    \E resp \in HtmlResponses :
        /\ Len(resp.cards) <= MaxItems \div (NumUrls + 1)
        /\ ToriScrapeOn(resp, NumUrls + 1)

\* tori_scraper.save_listings(), after which the coroutine returns
ToriSave ==
    /\ Save(tori_new, "tori", "tori_save", "returned")
    /\ tori_new' = IF pc' = "raised" THEN tori_new ELSE <<>>
    /\ UNCHANGED nk_new

Next ==
    \/ OnReady
    \/ TimerElapse
    \/ StartTick
    \/ LoopNext
    \/ LoopError
    \/ NkScrape
    \/ NkSend
    \/ NkSave
    \/ ToriScrape
    \/ ToriSend
    \/ ToriSave

Spec == Init /\ [][Next]_vars

\* the bot when get_nettikone_api_token gave no token
SpecNoToken == InitNoToken /\ [][Next]_vars

\* the bot over a config.json with more than one listing URL
NextMany ==
    \/ OnReady
    \/ TimerElapse
    \/ StartTick
    \/ LoopNext
    \/ LoopError
    \/ NkScrape
    \/ NkSend
    \/ NkSave
    \/ ToriScrapeMany
    \/ ToriSend
    \/ ToriSave

SpecMany == Init /\ [][NextMany]_vars


(* ============================== claims ================================= *)
Range(seq) == {seq[i] : i \in 1..Len(seq)}
LinksOf(seq) == {l.link : l \in Range(seq)}
NoTwoWithSameLink(seq) ==
    \A i, j \in 1..Len(seq) : seq[i].link = seq[j].link => i = j

\* the buffer the for loop at a place of the task runs over
BufferAt(place) == IF place = "nk_notify" THEN nk_new ELSE tori_new

\* a tick ended in a failed channel.send
SendRaised == pc = "raised" /\ exc.type \in SendFailures

\* C1: channel.send is called at most once for any link, over all ticks: no
\* send is made for a link a send was made for before.
C1_AtMostOnce ==
    [][(NkSend \/ ToriSend) => BufferAt(pc)[idx + 1].link \notin sent]_vars

\* C2: the new-listings buffer of a scraper never holds two listings with the
\* same link.
C2_NoDuplicateInBatch == NoTwoWithSameLink(nk_new) /\ NoTwoWithSameLink(tori_new)

\* C3: a scrape pass of either scraper places no listing in its buffer whose
\* link is in the table when the pass runs.
C3_NoStoredLinkKept ==
    [][(NkScrape \/ ToriScrape) =>
         /\ \A i \in 1..Len(nk_new') :
               i > Len(nk_new) => nk_new'[i].link \notin get_all_links(store)
         /\ \A i \in 1..Len(tori_new') :
               i > Len(tori_new) => tori_new'[i].link \notin get_all_links(store)]_vars

\* the items of an API response kept one by one: an item is kept iff it is
\* valid itself and its own link is not in the table
KeptPerItem(resp, rows) == KeepNew(ApiListings(resp.data), rows)

\* C4: after a successful API response the buffer has grown by exactly the
\* items that are valid and not in the table, each item decided on its own.
C4_PerItemFilter ==
    [][\A resp \in ApiResponses :
         (resp.kind = "ok" /\ resp.status = 200 /\ NkScrapeOn(resp))
            => nk_new' = nk_new \o KeptPerItem(resp, store)]_vars

\* C5: when a tick ends after a send failed, channel.send has been called for
\* every listing of the buffer the failed send belongs to.
C5_RemainingStillSent ==
    SendRaised => LinksOf(BufferAt(exc.at)) \subseteq tickSent

\* C6: when a tick ends after a send failed, the listings of the tick are in
\* the table and the buffers are empty.
C6_CommitDespiteFailure ==
    SendRaised =>
        /\ nk_new = <<>> /\ tori_new = <<>>
        /\ tickSent \subseteq get_all_links(store)

\* C7: when scrape_and_notify has run to its end, every link notified in the
\* tick is in the table and both buffers are empty.
C7_CompleteTickCommitted ==
    pc = "returned" =>
        /\ tickSent \subseteq get_all_links(store)
        /\ nk_new = <<>> /\ tori_new = <<>>

\* a tick ran to its end having notified listings of both sources
C7_Witness ==
    /\ pc = "returned"
    /\ \E i, j \in 1..Len(phases) :
         /\ phases[i] = Phase("notify", "nettikone")
         /\ phases[j] = Phase("notify", "tori")

EvRank(ev) == CASE ev = "scrape" -> 1 [] ev = "notify" -> 2 [] ev = "write" -> 3
SrcRank(src) == IF src = "nettikone" THEN 1 ELSE 2

AllSentinel == ListingFromHtml(CardBroken)

\* C11: an all-sentinel listing is never in the new-listings buffer, never
\* notified and never in the table.
C11_AllSentinelRejected ==
    /\ AllSentinel \notin Range(tori_new)
    /\ AllSentinel.link \notin sent
    /\ AllSentinel \notin BagToSet(store)

\* C12: a listing page answered with a status other than 200 adds nothing to
\* the buffer and raises nothing; the pass goes on with the next configured
\* URL, and the API source's buffer, the table and the sends are as they were.
C12_NonSuccessSkipped ==
    [][\A resp \in HtmlResponses :
         (resp.kind = "ok" /\ resp.status # 200 /\ ToriScrapeOn(resp, NumUrls + 1))
            => /\ tori_new' = tori_new
               /\ pc' # "raised" /\ exc' = NoExc
               /\ url' = url + 1
               /\ url' < NumUrls + 1 => pc' = "tori_scrape"
               /\ nk_new' = nk_new /\ store' = store
               /\ sent' = sent /\ tickSent' = tickSent]_vars

\* the first page was answered 500, the second was scraped and gave new
\* listings, in a tick in which the API source's listings were sent and saved
C12_Witness ==
    /\ tori_status = <<500, 200>>
    /\ pc = "tori_notify"
    /\ tori_new # <<>>
    /\ tickSent # {}
    /\ tickSent \subseteq get_all_links(store)

\* C13: no connection failure or timeout of a request leaves scrape_and_notify
\* as an exception.
C13_TransportRecovered ==
    ~(pc = "raised" /\ exc.type = "OSError" /\ exc.at \in {"nk_scrape", "tori_scrape"})

\* C14: a commit that raises does not end the loop.
C14_LoopSurvivesStoreError ==
    [][(pc = "raised" /\ exc.type = "SQLAlchemyError") => pc' # "stopped"]_vars

\* C15: without a token the API scraper buffers nothing and raises nothing.
C15_NoTokenYieldsNothing ==
    api_key = None =>
        /\ nk_new = <<>>
        /\ ~(pc = "raised" /\ exc.at = "nk_scrape")

\* C16: no step takes a row out of the table.
C16_AppendOnly ==
    [][\A l \in BagToSet(store) : CopiesIn(l, store') >= CopiesIn(l, store)]_vars

\* the table holds a row the API source's save wrote and, still with it, a row
\* the HTML source's later save wrote
C16_Witness ==
    /\ pc = "returned"
    /\ \E l, m \in BagToSet(store) :
         l.link = ItemX.adUrl /\ m.link = ListingFromHtml(CardA).link

\* C17: every link in the table is a link a send was made for, and a row is
\* written only when a send was made for its link in the same tick.
C17_NotifyPrecedesCommit ==
    /\ [](get_all_links(store) \subseteq sent)
    /\ [][\A l \in BagToSet(store') :
            CopiesIn(l, store') > CopiesIn(l, store) => l.link \in tickSent]_vars

\* the API source's save has just written rows, all sent in this tick
C17_Witness ==
    /\ pc = "tori_scrape"
    /\ store # EmptyBag
    /\ phases # <<>> /\ phases[Len(phases)] = Phase("write", "nettikone")

\* C18: each link is in at most one row of the table.
C18_OneRowPerLink ==
    \A l, m \in BagToSet(store) :
        l.link = m.link => l = m /\ CopiesIn(l, store) = 1

\* C19: both buffers are empty when a tick starts its scrape.
C19_BuffersEmptyAtTickStart ==
    pc = "nk_scrape" => nk_new = <<>> /\ tori_new = <<>>

\* C20: an API answer of status 200 with an empty array adds nothing to the
\* buffer and raises nothing.
C20_EmptyArrayReturns ==
    [][\A resp \in ApiResponses :
         (resp.kind = "ok" /\ resp.status = 200 /\ resp.data = <<>> /\ NkScrapeOn(resp))
            => pc' # "raised" /\ nk_new' = nk_new]_vars

=============================================================================
